---- MODULE Spec2Model ----
(***************************************************************************)
(* Model of the response-safety and chunked file-retrieval code of         *)
(* cursor-azure-devops-mcp (src/src/azure-devops-service.ts and the tool   *)
(* handlers that call it).                                                 *)
(*                                                                         *)
(* File bytes are kept symbolic: a text is a sequence of pieces, a piece   *)
(* being either a literal string the code writes itself or the bytes       *)
(* [from, to) of the file as stored under one version (the blob named by   *)
(* the object id, or the file on a branch).  Adjacent pieces of the same   *)
(* version are merged, so two texts are equal exactly when they hold the   *)
(* same bytes in the same order.  This keeps the code's own sizes          *)
(* (1024, 100000, 5) unscaled.                                             *)
(***************************************************************************)
EXTENDS Integers, Sequences, FiniteSets, TLC

Min(a, b) == IF a <= b THEN a ELSE b
Max(a, b) == IF a >= b THEN a ELSE b

(***************************************************************************)
(* Texts                                                                   *)
(***************************************************************************)
Lit(s) == IF s = "" THEN <<>> ELSE <<[lit |-> s, src |-> "", from |-> 0, to |-> 0]>>
Slice(src, a, b) == IF a < b THEN <<[lit |-> "", src |-> src, from |-> a, to |-> b]>> ELSE <<>>

PieceLen(p) == IF p.src = "" THEN Len(p.lit) ELSE p.to - p.from

RECURSIVE TextLen(_)
TextLen(t) == IF t = <<>> THEN 0 ELSE PieceLen(Head(t)) + TextLen(Tail(t))

\* String concatenation: the last piece of a and the first of b become one
\* piece when they are literals, or adjacent bytes of the same version.
Concat(a, b) ==
  IF a = <<>> THEN b
  ELSE IF b = <<>> THEN a
  ELSE LET x == a[Len(a)]
           y == b[1]
       IN IF x.src = "" /\ y.src = ""
          THEN SubSeq(a, 1, Len(a) - 1) \o <<[x EXCEPT !.lit = x.lit \o y.lit]>> \o Tail(b)
          ELSE IF x.src # "" /\ x.src = y.src /\ x.to = y.from
          THEN SubSeq(a, 1, Len(a) - 1) \o <<[x EXCEPT !.to = y.to]>> \o Tail(b)
          ELSE a \o b

\* chunks.join('')
RECURSIVE Join(_)
Join(chunks) == IF chunks = <<>> THEN <<>> ELSE Concat(Head(chunks), Join(Tail(chunks)))

(***************************************************************************)
(* Binary File Classifier                                                  *)
(***************************************************************************)
binaryExtensions ==
  { ".jpg", ".jpeg", ".png", ".gif", ".bmp", ".ico", ".svg", ".pdf", ".doc",
    ".docx", ".ppt", ".pptx", ".xls", ".xlsx", ".zip", ".tar", ".gz", ".rar",
    ".7z", ".exe", ".dll", ".so", ".dylib", ".bin", ".dat", ".class" }

Upper == <<"A","B","C","D","E","F","G","H","I","J","K","L","M",
           "N","O","P","Q","R","S","T","U","V","W","X","Y","Z">>
Lower == <<"a","b","c","d","e","f","g","h","i","j","k","l","m",
           "n","o","p","q","r","s","t","u","v","w","x","y","z">>

LowerChar(c) ==
  IF \E i \in 1..Len(Upper) : Upper[i] = c
  THEN Lower[CHOOSE i \in 1..Len(Upper) : Upper[i] = c]
  ELSE c

\* the characters of s from the i-th on, in lower case
RECURSIVE LowerFrom(_, _)
LowerFrom(s, i) ==
  IF i > Len(s) THEN "" ELSE LowerChar(SubSeq(s, i, i)) \o LowerFrom(s, i + 1)

\* String.prototype.toLowerCase
ToLowerCase(s) == LowerFrom(s, 1)

\* String.prototype.lastIndexOf, 0-based, -1 when the character is absent
LastIndexOf(s, c) ==
  LET hits == { i \in 1..Len(s) : SubSeq(s, i, i) = c }
  IN IF hits = {} THEN -1 ELSE (CHOOSE i \in hits : \A j \in hits : j <= i) - 1

\* String.prototype.substring(start): a negative start counts as 0
Substring(s, start) == SubSeq(s, Max(start, 0) + 1, Len(s))

isBinaryFile(filePath) ==
  LET extension == ToLowerCase(Substring(filePath, LastIndexOf(filePath, ".")))
  IN extension \in binaryExtensions

(***************************************************************************)
(* Upstream (the Azure DevOps git client), as the resolver sees it.        *)
(* A behaviour `up` fixes, for one request, what each upstream call does:  *)
(*   setup    "ok" | "initFail" (getGitApiClient throws)                   *)
(*   blob     getBlobContent: "buffer" | "string" | "null" | "fail"        *)
(*   meta     getBlobsZip: "fail" | "absent" (no body length)              *)
(*            | "exact" (body length = file size) | "under" | "over"       *)
(*   pr       getPullRequestById: "ok" | "nosource" | "fail"               *)
(*   item     getItem on a branch: [branch -> "ok" | "missing" | "fail"]   *)
(*   bcontent getItemContent: "buffer" | "string" | "null" | "fail"        *)
(*   bmeta    getItem with content metadata: "exact" | "absent" | "fail"   *)
(***************************************************************************)
UpstreamMsg == "request failed"
sourceRefName == "refs/heads/feature"
targetRefName == "refs/heads/main"

\* ref.replace(/^refs\/heads\//, '')
StripHeads(ref) ==
  IF Len(ref) >= 11 /\ SubSeq(ref, 1, 11) = "refs/heads/" THEN SubSeq(ref, 12, Len(ref)) ELSE ref

Branches == { StripHeads(sourceRefName), StripHeads(targetRefName) }

\* The bytes upstream returns for startPosition .. startPosition + length - 1
\* of a file of fileSize bytes stored as version src.
RangeOf(src, fileSize, startPosition, length) ==
  Slice(src, startPosition, Min(startPosition + length, fileSize))

\* The body length getBlobsZip reports
ZipLength(up, fileSize) ==
  CASE up.meta = "exact" -> fileSize
    [] up.meta = "under" -> fileSize \div 2
    [] up.meta = "over"  -> fileSize + 1
    [] OTHER -> 0

(***************************************************************************)
(* PullRequestFileContent (FileRange)                                      *)
(***************************************************************************)
FileRange(content, size, position, length, isBinary) ==
  [content |-> content, size |-> size, position |-> position, length |-> length,
   isBinary |-> isBinary, contentLength |-> size, hasError |-> FALSE, error |-> ""]

ErrorRange(position, message) ==
  [content |-> <<>>, size |-> 0, position |-> position, length |-> 0,
   isBinary |-> FALSE, contentLength |-> 0, hasError |-> TRUE, error |-> message]

Returned(range, calls) == [thrown |-> FALSE, range |-> range, message |-> "", calls |-> calls]
Thrown(message, calls) ==
  [thrown |-> TRUE, range |-> ErrorRange(0, message), message |-> message, calls |-> calls]

\* `a || b` on numbers
OrElse(a, b) == IF a # 0 THEN a ELSE b

\* The content conversion shared by both entry points: what is returned for
\* the value `kind` that the content call produced (chunk: the bytes),
\* total being the size the metadata call led to.
ConvertContent(kind, chunk, total, isBin, startPosition) ==
  CASE kind = "buffer" ->
         FileRange(IF isBin THEN Lit("[Binary content]") ELSE chunk,
                   total, startPosition, TextLen(chunk), isBin)
    [] kind = "string" ->
         FileRange(chunk, TextLen(chunk), startPosition, TextLen(chunk), isBin)
    [] OTHER ->
         FileRange(<<>>, 0, startPosition, 0, isBin)

\* getFileFromBranch
getFileFromBranch(filePath, branchName, startPosition, length, hasProject, up, fileSize) ==
  IF up.setup # "ok" THEN Thrown(UpstreamMsg, <<>>)
  ELSE IF ~hasProject THEN Thrown("Project name is required but not provided", <<>>)
  ELSE
    LET isBin == isBinaryFile(filePath)
        cItem == <<"getItem:" \o branchName>>
        cContent == cItem \o <<"getItemContent:" \o branchName>>
        cMeta == cContent \o <<"getItemMetadata:" \o branchName>>
        chunk == RangeOf(branchName, fileSize, startPosition, length)
        contentSize == TextLen(chunk)
        total == IF up.bmeta = "exact" THEN OrElse(fileSize, contentSize) ELSE contentSize
    IN CASE up.item[branchName] = "fail" ->
              Returned(ErrorRange(startPosition, UpstreamMsg), cItem)
         [] up.item[branchName] = "missing" ->
              Returned(ErrorRange(startPosition, "File not found at path: " \o filePath), cItem)
         [] up.bcontent = "fail" ->
              Returned(ErrorRange(startPosition, UpstreamMsg), cContent)
         [] up.bcontent = "buffer" ->
              Returned(ConvertContent("buffer", chunk, total, isBin, startPosition), cMeta)
         [] OTHER ->
              Returned(ConvertContent(up.bcontent, chunk, 0, isBin, startPosition), cContent)

\* (a bug to compare with: no retry by branch, the failure is surfaced at once)
BranchFallbackMissing(filePath, startPosition, length, up, fileSize, calls) ==
  Returned(ErrorRange(startPosition,
             "Failed to retrieve content for file: " \o filePath
               \o ". Direct access and branch fallback both failed."), calls)

\* The branch fallback of getPullRequestFileContent (its inner catch block)
BranchFallback(filePath, startPosition, length, up, fileSize, calls) ==
  LET cPr == calls \o <<"getPullRequestById">>
      bothFailed == ErrorRange(startPosition,
                      "Failed to retrieve content for file: " \o filePath
                        \o ". Direct access and branch fallback both failed.")
  IN IF up.pr # "ok" THEN Returned(bothFailed, cPr)
     ELSE LET r == getFileFromBranch(filePath, StripHeads(sourceRefName), startPosition,
                                     length, TRUE, up, fileSize)
          IN IF r.thrown THEN Returned(bothFailed, cPr \o r.calls)
             ELSE Returned(r.range, cPr \o r.calls)

\* getPullRequestFileContent
getPullRequestFileContent(filePath, startPosition, length, hasProject, up, fileSize) ==
  IF up.setup # "ok"
  THEN Returned(ErrorRange(startPosition, "Failed to retrieve content: " \o UpstreamMsg), <<>>)
  ELSE IF ~hasProject
  THEN Returned(ErrorRange(startPosition,
                  "Failed to retrieve content: Project name is required but not provided"), <<>>)
  ELSE
    LET isBin == isBinaryFile(filePath)
        cBlob == <<"getBlobContent">>
        chunk == RangeOf("blob", fileSize, startPosition, length)
        contentSize == TextLen(chunk)
        total == IF up.meta = "fail" THEN contentSize
                 ELSE OrElse(ZipLength(up, fileSize), contentSize)
    IN CASE up.blob = "fail" ->
              BranchFallback(filePath, startPosition, length, up, fileSize, cBlob)
         [] up.blob = "buffer" ->
              Returned(ConvertContent("buffer", chunk, total, isBin, startPosition),
                       cBlob \o <<"getBlobsZip">>)
         [] OTHER ->
              Returned(ConvertContent(up.blob, chunk, 0, isBin, startPosition), cBlob)

(***************************************************************************)
(* JavaScript values, as far as JSON.stringify tells them apart.  Objects  *)
(* and arrays live on a heap and are referred to by their index, so that a *)
(* value can be shared or refer to itself.                                 *)
(***************************************************************************)
Undefined == [k |-> "undefined", n |-> 0, s |-> ""]
Null == [k |-> "null", n |-> 0, s |-> ""]
Fn == [k |-> "function", n |-> 0, s |-> ""]
Bool(b) == [k |-> "boolean", n |-> IF b THEN 1 ELSE 0, s |-> ""]
Num(n) == [k |-> "number", n |-> n, s |-> ""]
Str(s) == [k |-> "string", n |-> 0, s |-> s]
Ref(id) == [k |-> "object", n |-> id, s |-> ""]

Object(keys, vals) == [isArray |-> FALSE, keys |-> keys, vals |-> vals]
Array(items) ==
  [isArray |-> TRUE, keys |-> [i \in 1..Len(items) |-> ToString(i - 1)], vals |-> items]

\* obj[field]
Get(o, field) ==
  IF \E i \in 1..Len(o.keys) : o.keys[i] = field
  THEN o.vals[CHOOSE i \in 1..Len(o.keys) : o.keys[i] = field]
  ELSE Undefined

\* obj[field] = value: a new key goes last, a known key keeps its place
Put(o, field, value) ==
  IF \E i \in 1..Len(o.keys) : o.keys[i] = field
  THEN [o EXCEPT !.vals[CHOOSE i \in 1..Len(o.keys) : o.keys[i] = field] = value]
  ELSE [o EXCEPT !.keys = Append(@, field), !.vals = Append(@, value)]

(***************************************************************************)
(* Safe Serializer: safeStringify                                          *)
(***************************************************************************)
CircularMarker == "[Circular]"
SkippedKeys == {"_httpMessage", "socket", "connection", "agent"}

\* JSON text of a string (the strings of this model need no escapes)
Quote(s) == "\"" \o s \o "\""

StringOut(t, seen) == [kind |-> "string", text |-> t, seen |-> seen]
UndefinedOut(seen) == [kind |-> "undefined", text |-> "", seen |-> seen]
ThrowOut(seen) == [kind |-> "throw", text |-> "", seen |-> seen]

\* (a bug to compare with: no field name is treated specially)
ReplacerNoSkippedKeys(key, value, seen) ==
  IF value.k = "object"
  THEN IF value.n \in seen
       THEN [value |-> Str(CircularMarker), seen |-> seen]
       ELSE [value |-> value, seen |-> seen \cup {value.n}]
  ELSE [value |-> value, seen |-> seen]

\* The replacer safeStringify hands to JSON.stringify; seen is its WeakSet
Replacer(key, value, seen) ==
  IF key \in SkippedKeys
  THEN [value |-> Str(CircularMarker), seen |-> seen]
  ELSE IF value.k = "object"
  THEN IF value.n \in seen
       THEN [value |-> Str(CircularMarker), seen |-> seen]
       ELSE [value |-> value, seen |-> seen \cup {value.n}]
  ELSE [value |-> value, seen |-> seen]

\* JSON.stringify's SerializeJSONProperty / SerializeJSONObject /
\* SerializeJSONArray with that replacer.  stack holds the objects being
\* serialized: meeting one of them again is the TypeError "Converting
\* circular structure to JSON".
RECURSIVE SerializeProperty(_, _, _, _, _)
RECURSIVE SerializeMembers(_, _, _, _, _, _)

SerializeProperty(h, key, value, seen, stack) ==
  LET r == Replacer(key, value, seen)
      v == r.value
      members == SerializeMembers(h, v.n, 1, Len(h[v.n].vals), r.seen, stack \cup {v.n})
  IN CASE v.k = "null" -> StringOut("null", r.seen)
       [] v.k = "boolean" -> StringOut(IF v.n = 1 THEN "true" ELSE "false", r.seen)
       [] v.k = "number" -> StringOut(ToString(v.n), r.seen)
       [] v.k = "string" -> StringOut(Quote(v.s), r.seen)
       [] v.k = "object" ->
            IF v.n \in stack \/ members.kind = "throw" THEN ThrowOut(r.seen)
            ELSE IF h[v.n].isArray THEN StringOut("[" \o members.text \o "]", members.seen)
            ELSE StringOut("{" \o members.text \o "}", members.seen)
       [] OTHER -> UndefinedOut(r.seen)

\* the members from..to of h[id], separated by commas; the walk over the
\* members is split in halves to keep the recursion shallow
SerializeMembers(h, id, from, to, seen, stack) ==
  LET o == h[id]
      p == SerializeProperty(h, o.keys[from], o.vals[from], seen, stack)
      half == (from + to) \div 2
      first == SerializeMembers(h, id, from, half, seen, stack)
      second == SerializeMembers(h, id, half + 1, to, first.seen, stack)
  IN IF from > to THEN StringOut("", seen)
     ELSE IF from = to
     THEN IF p.kind = "throw" THEN p
          ELSE IF o.isArray
          THEN StringOut(IF p.kind = "undefined" THEN "null" ELSE p.text, p.seen)
          ELSE IF p.kind = "undefined" THEN StringOut("", p.seen)
          ELSE StringOut(Quote(o.keys[from]) \o ":" \o p.text, p.seen)
     ELSE IF first.kind = "throw" THEN first
     ELSE IF second.kind = "throw" THEN second
     ELSE IF first.text = "" \/ second.text = ""
     THEN StringOut(first.text \o second.text, second.seen)
     ELSE StringOut(first.text \o "," \o second.text, second.seen)

safeStringify(h, obj) == SerializeProperty(h, "", obj, {}, {})

\* safeStringify(x).length: a TypeError when there is no string
HasLength(out) == out.kind = "string"

(***************************************************************************)
(* Double-precision arithmetic of obj.length * (maxSize / stringified.     *)
(* length): numbers are bit sequences, most significant bit first, kept to *)
(* MantissaBits significant bits, rounding to nearest, ties to even.       *)
(***************************************************************************)
MantissaBits == 53

RECURSIVE BitsToInt(_)
BitsToInt(bits) ==
  IF bits = <<>> THEN 0 ELSE 2 * BitsToInt(SubSeq(bits, 1, Len(bits) - 1)) + bits[Len(bits)]

\* the bits of n, least significant first
RECURSIVE IntToBitsLsb(_)
IntToBitsLsb(n) == IF n = 0 THEN <<>> ELSE <<n % 2>> \o IntToBitsLsb(n \div 2)

Reverse(bits) == [i \in 1..Len(bits) |-> bits[Len(bits) + 1 - i]]

\* bits + 1
IncBits(bits) ==
  IF \A i \in 1..Len(bits) : bits[i] = 1
  THEN <<1>> \o [i \in 1..Len(bits) |-> 0]
  ELSE LET last == CHOOSE j \in 1..Len(bits) :
                     bits[j] = 0 /\ \A i \in (j + 1)..Len(bits) : bits[i] = 1
       IN [i \in 1..Len(bits) |-> IF i < last THEN bits[i] ELSE IF i = last THEN 1 ELSE 0]

RoundUp(last, guard, sticky) == guard = 1 /\ (sticky \/ last = 1)

\* the first `count` quotient bits of r / b (r < b), and the remainder; the
\* long division is split in halves to keep the recursion shallow
RECURSIVE QuotientBits(_, _, _)
QuotientBits(r, b, count) ==
  IF count = 0 THEN [bits |-> <<>>, rem |-> r]
  ELSE IF count = 1
  THEN [bits |-> <<IF 2 * r >= b THEN 1 ELSE 0>>,
        rem |-> IF 2 * r >= b THEN 2 * r - b ELSE 2 * r]
  ELSE LET first == QuotientBits(r, b, count \div 2)
           second == QuotientBits(first.rem, b, count - count \div 2)
       IN [bits |-> first.bits \o second.bits, rem |-> second.rem]

RECURSIVE ShiftFor(_, _)
ShiftFor(a, b) == IF a >= b THEN 0 ELSE 1 + ShiftFor(2 * a, b)

RECURSIVE Pow2(_)
Pow2(e) == IF e = 0 THEN 1 ELSE 2 * Pow2(e - 1)

\* a / b for integers 0 < a < b: [bits, scale] stands for bits * 2^-scale
DivideDouble(a, b) ==
  LET shift == ShiftFor(a, b)
      q == QuotientBits(a * Pow2(shift) - b, b, MantissaBits)
      guard == q.bits[MantissaBits]
      kept == <<1>> \o SubSeq(q.bits, 1, MantissaBits - 1)
      away == RoundUp(kept[MantissaBits], guard, q.rem > 0)
  IN [bits |-> IF away THEN IncBits(kept) ELSE kept, scale |-> shift + MantissaBits - 1]

\* bits[from..to] * n + carry for a small integer n > 0: the product's bits,
\* least significant first, and what is carried out; split in halves likewise
RECURSIVE TimesSmallLsb(_, _, _, _, _)
TimesSmallLsb(bits, from, to, n, carry) ==
  IF from > to THEN [bits |-> <<>>, carry |-> carry]
  ELSE IF from = to
  THEN [bits |-> <<(n * bits[to] + carry) % 2>>, carry |-> (n * bits[to] + carry) \div 2]
  ELSE LET half == (from + to) \div 2
           low == TimesSmallLsb(bits, half + 1, to, n, carry)
           high == TimesSmallLsb(bits, from, half, n, low.carry)
       IN [bits |-> low.bits \o high.bits, carry |-> high.carry]

\* n * x for a double x = [bits, scale] and a small integer n > 0
MultiplyDouble(n, x) ==
  LET product == TimesSmallLsb(x.bits, 1, Len(x.bits), n, 0)
      exact == Reverse(product.bits \o IntToBitsLsb(product.carry))
      drop == Len(exact) - MantissaBits
      kept == SubSeq(exact, 1, MantissaBits)
      tail == SubSeq(exact, MantissaBits + 1, Len(exact))
      away == RoundUp(kept[MantissaBits], tail[1], \E i \in 2..Len(tail) : tail[i] = 1)
  IN IF drop <= 0 THEN [bits |-> exact, scale |-> x.scale]
     ELSE [bits |-> IF away THEN IncBits(kept) ELSE kept, scale |-> x.scale - drop]

\* Math.floor of a double x = [bits, scale] >= 0
FloorDouble(x) ==
  IF x.scale >= Len(x.bits) THEN 0
  ELSE BitsToInt(SubSeq(x.bits, 1, Len(x.bits) - x.scale))

\* (a bug to compare with: the proportion taken without the floor of one item)
KeepCountNoFloor(n, maxSize, length) == (n * maxSize) \div length

\* Math.max(1, Math.floor(obj.length * (maxSize / stringified.length))),
\* reached only when stringified.length > maxSize
KeepCount(n, maxSize, length) ==
  IF n = 0 \/ maxSize <= 0 THEN 1
  ELSE Max(1, FloorDouble(MultiplyDouble(n, DivideDouble(maxSize, length))))


(***************************************************************************)
(* Response Truncator: truncateResponse                                    *)
(***************************************************************************)
DEFAULT_MAX_SIZE == 50000
essentialFields == <<"id", "name", "url", "project", "state", "createdBy", "createdDate">>

IsEssential(key) == \E i \in 1..Len(essentialFields) : essentialFields[i] = key

\* what a call hands back: a value and the heap it lives on, or a raised error
Value(v, h) == [raised |-> FALSE, value |-> v, heap |-> h]
Raise(h) == [raised |-> TRUE, value |-> Undefined, heap |-> h]

ItemsMessage(shown, n) ==
  "Response was truncated. Showing " \o ToString(shown) \o " of " \o ToString(n) \o " items."
FieldsMessage == "Response was truncated to fit size limits. Essential information is preserved."

\* (a bug to compare with: no field treated as essential)
KeepEssentialSkipped(h, o, i, t, size) ==
  [raised |-> FALSE, truncated |-> t, currentSize |-> size]

\* essentialFields.forEach(...): t is `truncated`, size is `currentSize`
RECURSIVE KeepEssential(_, _, _, _, _)
KeepEssential(h, o, i, t, size) ==
  IF i > Len(essentialFields) THEN [raised |-> FALSE, truncated |-> t, currentSize |-> size]
  ELSE LET field == essentialFields[i]
           out == safeStringify(h, Get(o, field))
       IN IF Get(o, field) = Undefined THEN KeepEssential(h, o, i + 1, t, size)
          ELSE IF ~HasLength(out)
          THEN [raised |-> TRUE, truncated |-> Put(t, field, Get(o, field)), currentSize |-> size]
          ELSE KeepEssential(h, o, i + 1, Put(t, field, Get(o, field)), size + Len(out.text))

\* Object.entries(obj).forEach(...)
RECURSIVE AddOthers(_, _, _, _, _, _)
AddOthers(h, o, i, t, size, maxSize) ==
  IF i > Len(o.keys) THEN [raised |-> FALSE, truncated |-> t, currentSize |-> size]
  ELSE LET out == safeStringify(h, o.vals[i])
       IN IF IsEssential(o.keys[i]) THEN AddOthers(h, o, i + 1, t, size, maxSize)
          ELSE IF ~HasLength(out)
          THEN [raised |-> TRUE, truncated |-> t, currentSize |-> size]
          ELSE IF size + Len(out.text) <= maxSize
          THEN AddOthers(h, o, i + 1, Put(t, o.keys[i], o.vals[i]), size + Len(out.text), maxSize)
          ELSE AddOthers(h, o, i + 1, t, size, maxSize)

\* the array branch: the prefix and the object that wraps it are new objects
TruncateArray(h, o, maxSize, length) ==
  LET n == Len(o.vals)
      truncated == SubSeq(o.vals, 1, Min(n, KeepCount(n, maxSize, length)))
      wrapped == Object(<<"items", "totalCount", "isTruncated", "truncatedCount", "message">>,
                        << Ref(Len(h) + 1), Num(n), Bool(TRUE), Num(n - Len(truncated)),
                           Str(ItemsMessage(Len(truncated), n)) >>)
  IN Value(Ref(Len(h) + 2), h \o << Array(truncated), wrapped >>)

\* (a bug to compare with: the fields left out are deleted from the response
\* itself, which is handed back)
TruncateObjectInPlace(h, o, maxSize, length) ==
  LET kept == KeepEssential(h, o, 1, Object(<<>>, <<>>), 0)
      at == CHOOSE i \in 1..Len(h) : h[i] = o
  IN IF kept.raised THEN Raise(h)
     ELSE Value(Ref(at), [h EXCEPT ![at] = kept.truncated])

\* the object branch: `truncated` and the object spread from it are new objects
TruncateObject(h, o, maxSize, length) ==
  LET kept == KeepEssential(h, o, 1, Object(<<>>, <<>>), 0)
      added == AddOthers(h, o, 1, kept.truncated, kept.currentSize, maxSize)
      spread == Put(Put(Put(Put(added.truncated,
                  "isTruncated", Bool(TRUE)),
                  "originalSize", Num(length)),
                  "truncatedSize", Num(added.currentSize)),
                  "message", Str(FieldsMessage))
  IN IF kept.raised \/ added.raised THEN Raise(h)
     ELSE Value(Ref(Len(h) + 2), h \o << added.truncated, spread >>)

\* (a bug to compare with: the budget test taken strictly)
WithinBudgetStrict(length, maxSize) == length < maxSize

\* stringified.length <= maxSize
WithinBudget(length, maxSize) == length <= maxSize

truncateResponse(h, obj, maxSize) ==
  LET stringified == safeStringify(h, obj)
  IN IF ~HasLength(stringified) THEN Raise(h)
     ELSE IF WithinBudget(Len(stringified.text), maxSize) THEN Value(obj, h)
     ELSE IF h[obj.n].isArray THEN TruncateArray(h, h[obj.n], maxSize, Len(stringified.text))
     ELSE TruncateObject(h, h[obj.n], maxSize, Len(stringified.text))

(***************************************************************************)
(* Inputs of one tool invocation                                           *)
(***************************************************************************)
PROBE_SIZE == 1024
SMALL_FILE_LIMIT == 100000
CHUNK_SIZE == 100000
NUM_PARALLEL_REQUESTS == 5
DEFAULT_LENGTH == 100000

FileSizes == { 0, 1, 1024, 1025, 99999, 100000, 100001, 120000, 500001, 550000 }
FilePaths == { "src/app.ts", "Makefile", "logo.PNG" }
StartPositions == { 0, 50000 }
Lengths == { PROBE_SIZE, DEFAULT_LENGTH }

UpDefault ==
  [setup |-> "ok", blob |-> "buffer", meta |-> "exact", pr |-> "ok",
   item |-> [b \in Branches |-> "ok"], bcontent |-> "buffer", bmeta |-> "exact"]

Ups ==
  [setup : {"ok", "initFail"},
   blob : {"buffer", "string", "null", "fail"},
   meta : {"exact", "absent", "under", "over", "fail"},
   pr : {"ok", "nosource", "fail"},
   item : [Branches -> {"ok", "missing", "fail"}],
   bcontent : {"buffer", "string", "null", "fail"},
   bmeta : {"exact", "absent", "fail"}]

\* One representative per behaviour: a call the code does not reach keeps
\* its default outcome.
Canonical(tool, branch, u) ==
  LET other == CHOOSE b \in Branches : b # branch
      same(fields) == \A f \in fields : u[f] = UpDefault[f]
      branchPart ==
        /\ u.item[branch] = "ok" => u.item[other] = "ok"
        /\ u.item[branch] # "ok" => same({"bcontent", "bmeta"})
        /\ u.bcontent # "buffer" => u.bmeta = "exact"
  IN /\ u.setup # "ok" => same({"blob", "meta", "pr", "item", "bcontent", "bmeta"})
     /\ IF tool = "branch"
        THEN same({"blob", "meta", "pr"}) /\ branchPart
        ELSE /\ u.blob # "buffer" => u.meta = "exact"
             /\ u.blob # "fail" => same({"pr", "item", "bcontent", "bmeta"})
             /\ u.pr # "ok" => same({"item", "bcontent", "bmeta"})
             /\ branchPart

\* The branch a request reads when the object id is not used
BranchOf(r) == IF r.tool = "branch" THEN r.branchName ELSE StripHeads(sourceRefName)

Requests ==
  [tool : {"pr", "branch"}, returnPlainText : BOOLEAN, filePath : FilePaths,
   branchName : {StripHeads(targetRefName)},
   startPosition : StartPositions, length : Lengths, hasProject : BOOLEAN]

\* returnPlainText ignores startPosition and length
CanonicalRequest(r) ==
  r.returnPlainText => r.startPosition = 0 /\ r.length = DEFAULT_LENGTH

(***************************************************************************)
(* State                                                                   *)
(***************************************************************************)
VARIABLES
  req,          \* the tool invocation being served
  up,           \* how upstream behaves for this invocation
  fileSize,     \* the true size of the file
  pc,           \* where the invocation stands
  fetches,      \* the fetchChunk calls currently awaited, in issue order
  arrived,      \* indices of `fetches` in the order they completed
  issued,       \* every fetchChunk call made so far: <<startPosition, length>>
  chunks,       \* getCompleteFileContent: chunks
  position,     \* getCompleteFileContent: position
  totalLength,  \* getCompleteFileContent: contentLength / totalLength
  probe,        \* getCompleteFileContent: initialChunk, once resolved
  result,       \* what the service call returned or threw
  heap,         \* the JavaScript objects a response is made of
  payload,      \* the value handed to the truncator or the serializer
  maxSize,      \* truncateResponse: maxSize
  outcome,      \* what the truncator or the serializer returned or threw
  faulted,      \* history: some range request of this invocation failed on its own
  errored,      \* history: the ranges whose fetch resolved to a FileRange with error set
  reordered     \* history: some batch completed in another order than issued

\* The service object shared by the tool handlers, and the handler
\* invocations that use it
VARIABLES
  config,         \* what configManager.loadConfig() gives: are url and token set, is a project set
  connection,     \* AzureDevOpsService.connection: 0 (null) or the number of the handle
  constructed,    \* history: how many connection handles have been constructed
  clients,        \* which of the four API clients are non-null
  defaultProject, \* AzureDevOpsService.defaultProject is set
  invocations     \* the handler invocations: tool, position in the code, reply

service == <<config, connection, constructed, clients, defaultProject, invocations>>

\* One createPullRequestComment call; the SSE endpoints; one file-content
\* handler racing its timeout; one loadConfig call
VARIABLES
  comment,        \* createPullRequestComment: request, upstream behaviour, calls made, outcome
  servers,        \* config-manager.ts `servers`: the tracked MCP servers, each with its transport
  opened,         \* history: how many SSE connection requests have been handled
  post,           \* the last POST /message: its sessionId, the status sent, the transport that got it
  race,           \* the handler's Promise.race: operation, timer, clock, responses
  settings        \* loadConfig: what each source supplies, and the merged configuration

commenting == <<comment>>
routing == <<servers, opened, post>>
racing == <<race>>
configuring == <<settings>>
serving == <<service, commenting, routing, racing, configuring>>

shaping == <<heap, payload, maxSize, outcome>>
vars == <<req, up, fileSize, pc, fetches, arrived, issued, chunks, position,
          totalLength, probe, result, faulted, errored, reordered, shaping, serving>>

NoRange == ErrorRange(0, "")
NoResult == [kind |-> "none", text |-> <<>>, range |-> NoRange, message |-> "", calls |-> <<>>]
TextResult(t) == [NoResult EXCEPT !.kind = "text", !.text = t]
RangeResult(r, calls) == [NoResult EXCEPT !.kind = "range", !.range = r, !.calls = calls]
ErrorResult(m) == [NoResult EXCEPT !.kind = "error", !.message = m]

NoOutcome == [op |-> "none", kind |-> "none", text |-> "", value |-> Undefined]

\* a handler invocation that has not begun
NoReply == [kind |-> "none", isError |-> FALSE, text |-> ""]
IdleCall == [tool |-> "", named |-> FALSE, at |-> "idle", step |-> 0, handle |-> 0,
             error |-> "", reply |-> NoReply]

\* the service object is not in use
ServiceIdle ==
  /\ config = [valid |-> TRUE, project |-> TRUE]
  /\ connection = 0
  /\ constructed = 0
  /\ clients = {}
  /\ defaultProject = FALSE
  /\ invocations = <<>>

\* nothing else is going on
Idle == [at |-> "idle"]
CommentIdle == comment = Idle
RoutingIdle == servers = <<>> /\ opened = 0 /\ post = Idle
RaceIdle == race = Idle
ConfigIdle == settings = Idle

ServingIdle == ServiceIdle /\ CommentIdle /\ RoutingIdle /\ RaceIdle /\ ConfigIdle

\* no response is being shaped while a file is fetched
ShapingIdle ==
  /\ heap = <<>>
  /\ payload = Undefined
  /\ maxSize = DEFAULT_MAX_SIZE
  /\ outcome = NoOutcome

Init ==
  /\ req \in { r \in Requests : CanonicalRequest(r) }
  /\ up \in { u \in Ups : Canonical(req.tool, BranchOf(req), u) }
  /\ ~req.hasProject => up = UpDefault
  /\ fileSize \in FileSizes
  /\ pc = "start"
  /\ fetches = <<>>
  /\ arrived = <<>>
  /\ issued = <<>>
  /\ chunks = <<>>
  /\ position = 0
  /\ totalLength = 0
  /\ probe = NoRange
  /\ result = NoResult
  /\ faulted = FALSE
  /\ errored = {}
  /\ reordered = FALSE
  /\ ShapingIdle
  /\ ServingIdle

(***************************************************************************)
(* Responses handed to the truncator and the serializer.  heap[1] is the   *)
(* response itself, heap[2] an object it may refer to.                     *)
(***************************************************************************)
MaxFields == 3
MaxItems == 22
MaxShort == 1
MaxBudget == 45

FieldNames == {"id", "project", "rev", "body", "socket"}

ValuesOf(field) ==
  CASE field = "id" -> {Num(7), Undefined, Fn}
    [] field = "project" -> {Ref(2)}
    [] field = "rev" -> {Num(3), Undefined}
    [] field = "body" -> {Str("lorem ipsum"), Ref(1)}
    [] OTHER -> {Ref(2)}

FieldValues == UNION { ValuesOf(f) : f \in FieldNames }

FieldSeqs ==
  UNION { { ks \in [1..k -> FieldNames] : \A i, j \in 1..k : ks[i] = ks[j] => i = j }
          : k \in 0..MaxFields }

ResponseObjects ==
  UNION { { Object(ks, vs) :
              vs \in { f \in [1..Len(ks) -> FieldValues] :
                         \A i \in 1..Len(ks) : f[i] \in ValuesOf(ks[i]) } }
          : ks \in FieldSeqs }

\* lists of numbers: two-digit ones followed by at most MaxShort one-digit ones
NumberLists ==
  { [i \in 1..n |-> IF i <= n - short THEN Num(10) ELSE Num(1)] :
      n \in 0..MaxItems, short \in 0..MaxShort } 

ResponseArrays ==
  { Array(items) : items \in NumberLists \cup
      { <<Ref(2)>>, <<Ref(2), Ref(2)>>, <<Undefined, Num(1)>>, <<Ref(1), Num(1)>> } }

ReferredObjects ==
  { Object(<<>>, <<>>), Object(<<"owner">>, <<Ref(1)>>), Object(<<"self", "n">>, <<Ref(2), Num(1)>>) }

Refers(o, id) == \E i \in 1..Len(o.vals) : o.vals[i] = Ref(id)

ResponseHeaps ==
  { << o, aux >> : o \in ResponseObjects \cup ResponseArrays, aux \in ReferredObjects }

\* an object the response does not refer to plays no part
CanonicalHeap(h) == Refers(h[1], 2) \/ h[2] = Object(<<>>, <<>>)

Primitives == {Undefined, Null, Fn, Bool(TRUE), Num(7), Str("lorem ipsum")}

NoFetch ==
  /\ req = [tool |-> "none", returnPlainText |-> FALSE, filePath |-> "", branchName |-> "",
            startPosition |-> 0, length |-> 0, hasProject |-> FALSE]
  /\ up = UpDefault
  /\ fileSize = 0
  /\ pc = "idle"
  /\ fetches = <<>>
  /\ arrived = <<>>
  /\ issued = <<>>
  /\ chunks = <<>>
  /\ position = 0
  /\ totalLength = 0
  /\ probe = NoRange
  /\ result = NoResult
  /\ faulted = FALSE
  /\ errored = {}
  /\ reordered = FALSE

fetching == <<req, up, fileSize, pc, fetches, arrived, issued, chunks, position,
              totalLength, probe, result, faulted, errored, reordered>>

\* budgets beyond the serialized length all behave as the one just above it
InitTruncate ==
  /\ NoFetch
  /\ ServingIdle
  /\ heap \in { h \in ResponseHeaps : CanonicalHeap(h) }
  /\ payload = Ref(1)
  /\ maxSize \in 0..MaxBudget
  /\ maxSize <= Len(safeStringify(heap, payload).text) + 1
  /\ outcome = NoOutcome

Truncate ==
  /\ outcome.op = "none"
  /\ payload.k = "object"
  /\ LET r == truncateResponse(heap, payload, maxSize)
     IN /\ heap' = r.heap
        /\ outcome' = [op |-> "truncateResponse",
                       kind |-> IF r.raised THEN "throw" ELSE "value",
                       text |-> "", value |-> r.value]
  /\ UNCHANGED <<payload, maxSize, fetching, serving>>

NextTruncate == Truncate

SpecTruncate == InitTruncate /\ [][NextTruncate]_vars

InitStringify ==
  /\ NoFetch
  /\ ServingIdle
  /\ \/ /\ heap \in { h \in ResponseHeaps : CanonicalHeap(h) }
        /\ payload = Ref(1)
     \/ /\ heap = <<>>
        /\ payload \in Primitives
  /\ maxSize = DEFAULT_MAX_SIZE
  /\ outcome = NoOutcome

Stringify ==
  /\ outcome.op = "none"
  /\ LET out == safeStringify(heap, payload)
     IN outcome' = [op |-> "safeStringify", kind |-> out.kind, text |-> out.text,
                    value |-> Undefined]
  /\ UNCHANGED <<heap, payload, maxSize, fetching, serving>>

NextStringify == Stringify

SpecStringify == InitStringify /\ [][NextStringify]_vars

(***************************************************************************)
(* The range fetcher bound by the two entry points                         *)
(***************************************************************************)
\* One upstream range request may fail on its own while the others of the
\* same invocation succeed.
Broken(u) ==
  [u EXCEPT !.blob = "fail", !.pr = "fail", !.item = [b \in Branches |-> "fail"]]

CallEnvs(u) == IF u.setup = "ok" THEN {u, Broken(u)} ELSE {u}

\* fetchChunk(startPosition, length), as bound by
\* getCompletePullRequestFileContent / getCompleteFileFromBranch
fetchChunk(r, u, startPosition, length) ==
  IF r.tool = "pr"
  THEN getPullRequestFileContent(r.filePath, startPosition, length, r.hasProject, u, fileSize)
  ELSE getFileFromBranch(r.filePath, r.branchName, startPosition, length, r.hasProject, u, fileSize)

Pending(startPosition, length) ==
  [pos |-> startPosition, len |-> length, st |-> "pending", res |-> NoRange, message |-> ""]

Calls(fs) == [i \in 1..Len(fs) |-> <<fs[i].pos, fs[i].len>>]

\* (a bug to compare with: every remaining chunk requested in one batch)
BatchUnbounded(i, pos, total) ==
  LET count == (total - pos + CHUNK_SIZE - 1) \div CHUNK_SIZE
  IN [reqs |-> [j \in 1..count |->
                  Pending(pos + (j - 1) * CHUNK_SIZE,
                          Min(CHUNK_SIZE, total - pos - (j - 1) * CHUNK_SIZE))],
      position |-> total]

\* (a bug to compare with: every chunk requested at full size)
BatchUnclipped(i, pos, total) ==
  LET count == Min(NUM_PARALLEL_REQUESTS, (total - pos + CHUNK_SIZE - 1) \div CHUNK_SIZE)
  IN [reqs |-> [j \in 1..count |-> Pending(pos + (j - 1) * CHUNK_SIZE, CHUNK_SIZE)],
      position |-> pos + count * CHUNK_SIZE]

\* The for-loop that creates one batch of chunk requests: the requests, and
\* the position after them.
RECURSIVE Batch(_, _, _)
Batch(i, pos, total) ==
  IF i < NUM_PARALLEL_REQUESTS /\ pos < total
  THEN LET chunkSize == Min(CHUNK_SIZE, total - pos)
           rest == Batch(i + 1, pos + chunkSize, total)
       IN [reqs |-> <<Pending(pos, chunkSize)>> \o rest.reqs, position |-> rest.position]
  ELSE [reqs |-> <<>>, position |-> pos]

\* (a bug to compare with: chunks taken in completion order)
WaveOrderByArrival(fs, order) == [i \in 1..Len(fs) |-> fs[order[i]].res.content]

\* The chunk results in the order Promise.all delivers them
WaveOrder(fs, order) == [i \in 1..Len(fs) |-> fs[i].res.content]

\* (a bug to compare with: the rejection passed on as it came)
RethrowUnwrapped(message) == message

\* the catch block of getCompleteFileContent
WrapError(message) == "Failed to retrieve complete file content: " \o message

(***************************************************************************)
(* Tool invocation with returnPlainText = false: one range                 *)
(***************************************************************************)
\* azure_devops_pull_request_file_content / azure_devops_branch_file_content
\* handler, the branch that asks for a single range
GetRange ==
  /\ pc = "start"
  /\ ~req.returnPlainText
  /\ LET r == fetchChunk(req, up, req.startPosition, req.length)
     IN result' = IF r.thrown THEN ErrorResult(r.message) ELSE RangeResult(r.range, r.calls)
  /\ pc' = "done"
  /\ UNCHANGED <<serving, shaping, req, up, fileSize, fetches, arrived, issued, chunks, position,
                 totalLength, probe, faulted, errored, reordered>>

(***************************************************************************)
(* Tool invocation with returnPlainText = true: the whole file             *)
(***************************************************************************)
Finish(r) ==
  /\ result' = r
  /\ pc' = "done"
  /\ fetches' = <<>>
  /\ arrived' = <<>>

Issue(fs, nextPc) ==
  /\ fetches' = fs
  /\ arrived' = <<>>
  /\ issued' = issued \o Calls(fs)
  /\ pc' = nextPc

\* getCompletePullRequestFileContent / getCompleteFileFromBranch up to the
\* probe: fetchChunk(0, 1024)
StartComplete ==
  /\ pc = "start"
  /\ req.returnPlainText
  /\ IF isBinaryFile(req.filePath)
     THEN /\ Finish(TextResult(Lit("[Binary file - content cannot be displayed as text]")))
          /\ UNCHANGED issued
     ELSE /\ Issue(<<Pending(0, PROBE_SIZE)>>, "probe")
          /\ UNCHANGED result
  /\ UNCHANGED <<serving, shaping, req, up, fileSize, chunks, position, totalLength, probe, faulted, errored, reordered>>

\* One awaited range fetch completes: its promise resolves to a FileRange
\* or rejects.
ResolveFetch(i) ==
  /\ pc \in {"probe", "full", "wave"}
  /\ i \in 1..Len(fetches)
  /\ fetches[i].st = "pending"
  /\ \E u \in CallEnvs(up) :
       LET r == fetchChunk(req, u, fetches[i].pos, fetches[i].len)
       IN /\ fetches' = [fetches EXCEPT ![i] =
                           IF r.thrown
                           THEN [@ EXCEPT !.st = "rejected", !.message = r.message]
                           ELSE [@ EXCEPT !.st = "resolved", !.res = r.range]]
          /\ faulted' = (faulted \/ u # up)
          /\ errored' = IF ~r.thrown /\ r.range.hasError
                         THEN errored \cup {<<fetches[i].pos, fetches[i].len>>}
                         ELSE errored
  /\ arrived' = Append(arrived, i)
  /\ UNCHANGED <<serving, shaping, req, up, fileSize, pc, issued, chunks, position, totalLength, probe,
                 result, reordered>>

\* An awaited fetch rejected: the catch block of getCompleteFileContent
\* rethrows, wrapped; the wrappers rethrow as is.
FetchRejected ==
  /\ pc \in {"probe", "full", "wave"}
  /\ \E k \in 1..Len(arrived) :
       /\ fetches[arrived[k]].st = "rejected"
       /\ \A l \in 1..(k - 1) : fetches[arrived[l]].st # "rejected"
       /\ Finish(ErrorResult(WrapError(fetches[arrived[k]].message)))
  /\ UNCHANGED <<serving, shaping, req, up, fileSize, issued, chunks, position, totalLength, probe,
                 faulted, errored, reordered>>

\* getCompleteFileContent after `await fetchChunk(0, 1024)`
AfterProbe ==
  /\ pc = "probe"
  /\ fetches[1].st = "resolved"
  /\ LET initialChunk == fetches[1].res
         contentLength == OrElse(initialChunk.contentLength, initialChunk.size)
     IN /\ probe' = initialChunk
        /\ totalLength' = contentLength
        /\ IF initialChunk.isBinary
           THEN /\ Finish(TextResult(Lit("[Binary file content not displayed. File size: "
                                          \o ToString(contentLength) \o " bytes]")))
                /\ UNCHANGED <<issued, position>>
           ELSE IF contentLength <= SMALL_FILE_LIMIT
           THEN IF contentLength <= TextLen(initialChunk.content)
                THEN /\ Finish(TextResult(initialChunk.content))
                     /\ UNCHANGED <<issued, position>>
                ELSE /\ Issue(<<Pending(0, contentLength)>>, "full")
                     /\ UNCHANGED <<result, position>>
           ELSE LET b == Batch(0, 0, contentLength)
                IN /\ Issue(b.reqs, "wave")
                   /\ position' = b.position
                   /\ UNCHANGED result
  /\ UNCHANGED <<serving, shaping, req, up, fileSize, chunks, faulted, errored, reordered>>

\* (a bug to compare with: the probe returned although it holds only the
\* first bytes of the file)
AfterFullReturnsProbe ==
  /\ pc = "full"
  /\ fetches[1].st = "resolved"
  /\ Finish(TextResult(probe.content))
  /\ UNCHANGED <<serving, shaping, req, up, fileSize, issued, chunks, position, totalLength, probe,
                 faulted, errored, reordered>>

\* after `await fetchChunk(0, contentLength)`
AfterFull ==
  /\ pc = "full"
  /\ fetches[1].st = "resolved"
  /\ Finish(TextResult(fetches[1].res.content))
  /\ UNCHANGED <<serving, shaping, req, up, fileSize, issued, chunks, position, totalLength, probe,
                 faulted, errored, reordered>>

\* after `await Promise.all(chunkPromises)`: the chunks are pushed, then the
\* 100 ms pause begins
AfterWave ==
  /\ pc = "wave"
  /\ \A i \in 1..Len(fetches) : fetches[i].st = "resolved"
  /\ chunks' = chunks \o WaveOrder(fetches, arrived)
  /\ pc' = "delay"
  /\ fetches' = <<>>
  /\ arrived' = <<>>
  /\ reordered' = (reordered \/ arrived # [i \in 1..Len(fetches) |-> i])
  /\ UNCHANGED <<serving, shaping, req, up, fileSize, issued, position, totalLength, probe, result, faulted, errored>>

\* (a bug to compare with: the loop tested with position <= totalLength)
AfterDelayOffByOne ==
  /\ pc = "delay"
  /\ IF position <= totalLength
     THEN LET b == Batch(0, position, totalLength)
          IN /\ Issue(b.reqs, "wave")
             /\ position' = b.position
             /\ UNCHANGED result
     ELSE /\ Finish(TextResult(Join(chunks)))
          /\ UNCHANGED <<issued, position>>
  /\ UNCHANGED <<serving, shaping, req, up, fileSize, chunks, totalLength, probe, faulted, errored, reordered>>

\* the pause is over: the while loop tests position < totalLength again
AfterDelay ==
  /\ pc = "delay"
  /\ IF position < totalLength
     THEN LET b == Batch(0, position, totalLength)
          IN /\ Issue(b.reqs, "wave")
             /\ position' = b.position
             /\ UNCHANGED result
     ELSE /\ Finish(TextResult(Join(chunks)))
          /\ UNCHANGED <<issued, position>>
  /\ UNCHANGED <<serving, shaping, req, up, fileSize, chunks, totalLength, probe, faulted, errored, reordered>>

Next ==
  \/ GetRange
  \/ StartComplete
  \/ \E i \in 1..NUM_PARALLEL_REQUESTS : ResolveFetch(i)
  \/ FetchRejected
  \/ AfterProbe
  \/ AfterFull
  \/ AfterWave
  \/ AfterDelay

Spec == Init /\ [][Next]_vars

\* Whole-file retrievals alone, with every issued range fetch settling: a
\* pending fetch resolves or rejects, and the event loop runs every
\* continuation that is ready (the awaits of getCompleteFileContent and its
\* 100 ms timer).  The upstream answers as asked or the service cannot be
\* set up; single calls may still fail (ResolveFetch).  File sizes up to
\* 500,001 bytes: the second batch is the last one.
InitWhole ==
  /\ Init
  /\ req.returnPlainText
  /\ req.filePath \in {"src/app.ts", "logo.PNG"}
  /\ fileSize # 550000
  /\ up \in {UpDefault, [UpDefault EXCEPT !.setup = "initFail"]}

NextWhole ==
  \/ StartComplete
  \/ \E i \in 1..NUM_PARALLEL_REQUESTS : ResolveFetch(i)
  \/ FetchRejected
  \/ AfterProbe
  \/ AfterFull
  \/ AfterWave
  \/ AfterDelay

FairSpec == InitWhole /\ [][NextWhole]_vars /\ WF_vars(NextWhole)

(***************************************************************************)
(* Properties of the chunked range fetcher and the file content resolver   *)
(***************************************************************************)
Done == pc = "done"
WholeFile == Done /\ req.returnPlainText
OneRange == Done /\ ~req.returnPlainText

\* The version of the file the invocation reads its bytes from
VersionRead == IF req.tool = "pr" /\ up.blob # "fail" THEN "blob" ELSE BranchOf(req)

\* Every range request of the invocation hands back the bytes it was asked for
Delivering ==
  /\ req.hasProject
  /\ up.setup = "ok"
  /\ ~faulted
  /\ IF VersionRead = "blob"
     THEN up.blob \in {"buffer", "string"}
     ELSE /\ req.tool = "pr" => up.pr = "ok"
          /\ up.item[BranchOf(req)] = "ok"
          /\ up.bcontent \in {"buffer", "string"}

\* C1: a non-binary file of size S whose probe reports S as content length
\* is returned by getCompleteFileContent byte for byte, whatever the order
\* in which the range fetches of a batch completed.
C1_ReassemblyInOrder ==
  (WholeFile /\ ~isBinaryFile(req.filePath) /\ Delivering
     /\ OrElse(probe.contentLength, probe.size) = fileSize)
  => result = TextResult(Slice(VersionRead, 0, fileSize))

C1_Witness ==
  /\ WholeFile /\ ~isBinaryFile(req.filePath) /\ Delivering
  /\ fileSize = 550000 /\ totalLength = fileSize /\ reordered
  /\ Len(issued) = 7
  /\ result.text = Slice(VersionRead, 0, fileSize)

\* C2: with returnPlainText the pull-request tool returns the complete file
\* whenever the range fetches by object id succeed, whatever the total-size
\* metadata call (getBlobsZip) does: here, whether it reports the size of
\* the file or throws.
C2_CompleteWhateverMetadata ==
  (WholeFile /\ req.tool = "pr" /\ ~isBinaryFile(req.filePath) /\ Delivering
     /\ up.blob = "buffer" /\ up.meta \in {"exact", "fail"})
  => result = TextResult(Slice("blob", 0, fileSize))

\* C3: for a path with a binary extension the whole-file retrieval issues
\* exactly one probe call (0, 1024) and nothing more, and returns the
\* placeholder that states the reported size.
C3_BinaryProbeOnce ==
  (WholeFile /\ isBinaryFile(req.filePath) /\ req.hasProject /\ up.setup = "ok")
  => /\ issued = << <<0, PROBE_SIZE>> >>
     /\ result = TextResult(Lit("[Binary file content not displayed. File size: "
                                 \o ToString(totalLength) \o " bytes]"))

\* The object-id fetch of a pull-request range request failed and the lookup
\* of the pull request gave its source branch
DirectFailed ==
  /\ OneRange /\ req.tool = "pr" /\ req.hasProject
  /\ up.setup = "ok" /\ up.blob = "fail" /\ up.pr = "ok"

Attempted(branch) == \E i \in 1..Len(result.calls) : result.calls[i] = "getItem:" \o branch

SourceBranch == StripHeads(sourceRefName)
TargetBranch == StripHeads(targetRefName)

\* C4: when the object-id fetch fails and the fetch from the pull request's
\* source branch succeeds, getPullRequestFileContent returns the range read
\* from the source branch, with no error set.
C4_SourceBranchFallback ==
  (DirectFailed /\ up.item[SourceBranch] = "ok" /\ up.bcontent # "fail")
  => /\ result.kind = "range"
     /\ ~result.range.hasError
     /\ result.range.position = req.startPosition
     /\ (up.bcontent \in {"buffer", "string"} /\ ~isBinaryFile(req.filePath))
          => result.range.content =
               RangeOf(SourceBranch, fileSize, req.startPosition, req.length)

C4_Witness ==
  /\ DirectFailed /\ up.item[SourceBranch] = "ok" /\ up.bcontent = "buffer"
  /\ ~isBinaryFile(req.filePath)
  /\ fileSize = 120000 /\ req.startPosition = 50000
  /\ ~result.range.hasError
  /\ result.range.content = Slice(SourceBranch, 50000, 120000)

\* C5: when the object-id fetch and the retry on the source branch both fail,
\* getPullRequestFileContent retries on the target branch, and returns the
\* error range (error set, content empty) only if that fails too.
C5_TargetBranchRetry ==
  (DirectFailed /\ up.item[SourceBranch] # "ok")
  => /\ Attempted(TargetBranch)
     /\ result.kind = "range"
     /\ result.range.hasError => up.item[TargetBranch] # "ok"
     /\ result.range.hasError => result.range.content = <<>>

\* C6: a range returned without an error by getPullRequestFileContent or
\* getFileFromBranch satisfies position + length <= size, for every requested
\* startPosition and length inside the file, whether the total-size metadata
\* call reports the size of the file or throws (the content call handing
\* back a Buffer).
C6_RangeWithinSize ==
  (OneRange /\ result.kind = "range" /\ ~result.range.hasError
     /\ req.startPosition < fileSize
     /\ up.blob \in {"buffer", "fail"} /\ up.bcontent = "buffer"
     /\ up.meta \in {"exact", "fail"} /\ up.bmeta \in {"exact", "fail"})
  => result.range.position + result.range.length <= result.range.size

(***************************************************************************)
(* Properties of the response truncator and the safe serializer            *)
(***************************************************************************)
\* the serialized size of the response (the truncator leaves its input alone,
\* so this is the size the call saw)
SerializedLength == Len(safeStringify(heap, payload).text)

\* truncateResponse has returned a value
Shaped == outcome.op = "truncateResponse" /\ outcome.kind = "value"

\* the object truncateResponse returned
Shape == heap[outcome.value.n]

\* C7: a response whose serialized size is within the budget (the size equal
\* to the budget included) is returned as it is: the very same value, nothing
\* allocated, no object changed, and so no isTruncated added.
C7_WithinBudgetUnchanged ==
  [][(outcome'.op = "truncateResponse" /\ SerializedLength <= maxSize)
       => /\ outcome'.kind = "value"
          /\ outcome'.value = payload
          /\ heap' = heap
          /\ Get(heap'[payload.n], "isTruncated") = Undefined]_vars

C7_Witness ==
  /\ Shaped
  /\ SerializedLength = maxSize
  /\ outcome.value = payload
  /\ Len(heap[payload.n].vals) = MaxFields
  /\ Get(heap[payload.n], "id") = Num(7)

\* C8: whenever truncateResponse returns for an over-budget object, every
\* essential field the object has (id among them) is in the result with the
\* value it had, whatever the budget.
C8_EssentialFieldsKept ==
  (Shaped /\ ~heap[payload.n].isArray /\ SerializedLength > maxSize)
  => \A i \in 1..Len(essentialFields) :
       Get(heap[payload.n], essentialFields[i]) # Undefined
         => Get(Shape, essentialFields[i]) = Get(heap[payload.n], essentialFields[i])

C8_Witness ==
  /\ Shaped /\ ~heap[payload.n].isArray
  /\ maxSize = 0
  /\ Get(heap[payload.n], "id") = Num(7) /\ Get(Shape, "id") = Num(7)
  /\ Get(heap[payload.n], "project") = Ref(2) /\ Get(Shape, "project") = Ref(2)
  /\ Get(heap[payload.n], "body") # Undefined /\ Get(Shape, "body") = Undefined

\* the items of the array result, and the counts the claim speaks of
ShapeItems == heap[Get(Shape, "items").n].vals
ArrayLength == Len(heap[payload.n].vals)
ExactShare == (ArrayLength * maxSize) \div SerializedLength
ShareIsWhole == (ArrayLength * maxSize) % SerializedLength = 0
ArrayShaped == Shaped /\ heap[payload.n].isArray /\ SerializedLength > maxSize

C10_AlwaysAString ==
  outcome.op = "safeStringify" => outcome.kind = "string"

(***************************************************************************)
(* Properties of the waves of getCompleteFileContent                       *)
(***************************************************************************)
\* the range fetches awaited and not yet settled
InFlight == { i \in 1..Len(fetches) : fetches[i].st = "pending" }

\* C17: waves run one after the other: while a wave is awaited, the content
\* of every range fetch of the earlier waves has been collected (so all of
\* them had resolved before this wave was issued); a wave holds at most
\* NUM_PARALLEL_REQUESTS fetches of at most CHUNK_SIZE bytes each, and at no
\* moment are more than NUM_PARALLEL_REQUESTS range fetches in flight.
C17_WavesSequential ==
  /\ Cardinality(InFlight) <= NUM_PARALLEL_REQUESTS
  /\ pc = "wave" =>
       /\ Len(fetches) <= NUM_PARALLEL_REQUESTS
       /\ \A i \in 1..Len(fetches) : fetches[i].len <= CHUNK_SIZE
       /\ Len(chunks) = Len(issued) - 1 - Len(fetches)

C17_Witness ==
  /\ pc = "wave"
  /\ fileSize = 550000
  /\ Len(chunks) = NUM_PARALLEL_REQUESTS
  /\ Len(issued) = 7
  /\ InFlight = {1}
  /\ fetches[1].pos = 500000 /\ fetches[1].len = 50000

WrapPrefix == "Failed to retrieve complete file content: "

\* an awaited range fetch has rejected
SomeRejected == \E i \in 1..Len(fetches) : fetches[i].st = "rejected"

FullRangeContents ==
  { fetchChunk(req, u, 0, totalLength).range.content : u \in CallEnvs(up) }

\* C19: when the probe reports a total of at most 100,000 bytes the
\* whole-file retrieval never starts a batch and issues at most two range
\* fetches: it returns the content of the probe when the probe holds the
\* whole file, and otherwise the content of exactly one more fetch of
\* (0, total).
C19_SmallFileTwoFetches ==
  (req.returnPlainText /\ totalLength <= SMALL_FILE_LIMIT)
  => /\ pc \notin {"wave", "delay"}
     /\ chunks = <<>>
     /\ Len(issued) <= 2
     /\ (pc = "done" /\ result.kind = "text" /\ probe # NoRange /\ ~probe.isBinary)
        => IF totalLength <= TextLen(probe.content)
           THEN /\ issued = << <<0, PROBE_SIZE>> >>
                /\ result.text = probe.content
           ELSE /\ issued = << <<0, PROBE_SIZE>>, <<0, totalLength>> >>
                /\ result.text \in FullRangeContents

C19_Witness ==
  /\ WholeFile /\ Delivering /\ ~probe.isBinary
  /\ fileSize = SMALL_FILE_LIMIT /\ totalLength = fileSize
  /\ TextLen(probe.content) = PROBE_SIZE
  /\ issued = << <<0, PROBE_SIZE>>, <<0, SMALL_FILE_LIMIT>> >>
  /\ result = TextResult(Slice(VersionRead, 0, SMALL_FILE_LIMIT))

\* C20: when every issued range fetch settles, the whole-file retrieval
\* ends for every total size; the position of the loop never exceeds the
\* total, grows with every batch that is started, and the loop is left
\* exactly when the position has reached the total.
C20_FetchWholeEnds ==
  /\ <>(pc = "done")
  /\ [](position <= totalLength)
  /\ [][/\ (pc' = "wave" /\ pc # "wave") => position' > position
        /\ (pc = "delay" /\ pc' = "done") => position = totalLength
        /\ (pc = "delay" /\ position = totalLength) => pc' = "done"]_vars

C20_Witness ==
  /\ WholeFile /\ result.kind = "text"
  /\ fileSize = 500001 /\ totalLength = fileSize
  /\ position = totalLength
  /\ Len(chunks) = 6
  /\ issued[7] = <<500000, 1>>

(***************************************************************************)
(* The service object under concurrent handler invocations.  A handler of  *)
(* the stdio server (index.ts) calls one service method; the method awaits *)
(* initialize(), checks its client and the project name, and awaits one    *)
(* upstream call.  Between two awaits a handler runs alone.                *)
(***************************************************************************)
MaxCallers == 2
MaxHandles == 2

Callers == 1..MaxCallers

\* three of the tools registered in index.ts
Tools == { "azure_devops_projects", "azure_devops_pull_request_by_id",
           "azure_devops_pull_request_threads" }

\* the handlers whose body is a try/catch
Guarded(tool) == tool \in { "azure_devops_projects", "azure_devops_pull_request_by_id" }

\* the client the service method of the tool uses, and its message when the
\* client is null
ClientOf(tool) == IF tool = "azure_devops_projects" THEN "project" ELSE "git"
NotInitialized(tool) ==
  IF tool = "azure_devops_projects" THEN "Project client not initialized"
  ELSE "Git client not initialized"

\* the service methods that resolve a project name
NeedsProject(tool) == tool # "azure_devops_projects"

\* the order in which initialize() acquires the clients
ClientOrder == <<"project", "workItem", "git", "testPlan">>

\* (a bug to compare with: the connection is never found set)
NeverConnected(c) == FALSE

\* `if (this.connection) return;`
AlreadyConnected(c) == c # 0

\* what a handler hands back to the MCP server: an envelope, or a rejection
Envelope(text) == [kind |-> "envelope", isError |-> FALSE, text |-> text]
Rejected(message) == [kind |-> "rejected", isError |-> FALSE, text |-> message]

\* JSON.stringify({ error: String(error) }, null, 2) for an Error
ErrorText(message) == "{\n  \"error\": \"Error: " \o message \o "\"\n}"

\* the handler when its service method threw: the catch block of a guarded
\* handler, the rejection of the others
HandlerCatch(tool, message) ==
  IF Guarded(tool) THEN Envelope(ErrorText(message)) ELSE Rejected(message)

\* the handler when its service method returned
HandlerReturn(tool) == Envelope("result of " \o tool)

beyondService == <<fetching, shaping, commenting, routing, racing, configuring>>

InitServe ==
  /\ NoFetch
  /\ ShapingIdle
  /\ CommentIdle /\ RoutingIdle /\ RaceIdle /\ ConfigIdle
  /\ config \in [valid : BOOLEAN, project : BOOLEAN]
  /\ connection = 0
  /\ constructed = 0
  /\ clients = {}
  /\ defaultProject = FALSE
  /\ invocations = [t \in Callers |-> IdleCall]

\* the service method threw `message`: the handler ends
Fail(t, message) ==
  invocations' = [invocations EXCEPT ![t] =
                    [@ EXCEPT !.at = "done", !.error = message,
                              !.reply = HandlerCatch(invocations[t].tool, message)]]

\* A handler is invoked and runs up to the first await inside initialize()
Invoke(t) ==
  /\ invocations[t].at = "idle"
  /\ \E tool \in Tools, named \in BOOLEAN :
       LET call == [IdleCall EXCEPT !.tool = tool, !.named = named]
       IN IF AlreadyConnected(connection)
          THEN /\ invocations' = [invocations EXCEPT ![t] =
                                    [call EXCEPT !.at = "initialized", !.handle = connection]]
               /\ UNCHANGED <<connection, constructed, defaultProject>>
          ELSE IF ~config.valid
          THEN /\ invocations' = [invocations EXCEPT ![t] =
                    [call EXCEPT !.at = "done",
                       !.error = "Azure DevOps organization URL and token are required",
                       !.reply = HandlerCatch(tool,
                                   "Azure DevOps organization URL and token are required")]]
               /\ UNCHANGED <<connection, constructed, defaultProject>>
          ELSE /\ constructed < MaxHandles
               /\ connection' = constructed + 1
               /\ constructed' = constructed + 1
               /\ defaultProject' = (defaultProject \/ config.project)
               /\ invocations' = [invocations EXCEPT ![t] =
                                    [call EXCEPT !.at = "acquiring", !.step = 1,
                                                 !.handle = constructed + 1]]
  /\ UNCHANGED <<config, clients, beyondService>>

\* initialize(): one `await this.connection.get...Api()` settles
Acquire(t) ==
  /\ invocations[t].at = "acquiring"
  /\ \/ /\ clients' = clients \cup {ClientOrder[invocations[t].step]}
        /\ invocations' = [invocations EXCEPT ![t] =
                             IF @.step = Len(ClientOrder)
                             THEN [@ EXCEPT !.at = "initialized"]
                             ELSE [@ EXCEPT !.step = @ + 1]]
     \/ /\ Fail(t, UpstreamMsg)
        /\ UNCHANGED clients
  /\ UNCHANGED <<config, connection, constructed, defaultProject, beyondService>>

\* the service method after `await this.initialize()`: the client check,
\* the project name, the upstream call
AfterInitialize(t) ==
  /\ invocations[t].at = "initialized"
  /\ LET call == invocations[t]
     IN IF ClientOf(call.tool) \notin clients
        THEN Fail(t, NotInitialized(call.tool))
        ELSE IF NeedsProject(call.tool) /\ ~call.named /\ ~defaultProject
        THEN Fail(t, "Project name is required")
        ELSE invocations' = [invocations EXCEPT ![t] =
                               [@ EXCEPT !.at = "upstream", !.handle = connection]]
  /\ UNCHANGED <<config, connection, constructed, clients, defaultProject, beyondService>>

\* the upstream call settles; the handler returns the envelope, or catches
UpstreamSettles(t) ==
  /\ invocations[t].at = "upstream"
  /\ \/ invocations' = [invocations EXCEPT ![t] =
                          [@ EXCEPT !.at = "done",
                                    !.reply = HandlerReturn(invocations[t].tool)]]
     \/ Fail(t, UpstreamMsg)
  /\ UNCHANGED <<config, connection, constructed, clients, defaultProject, beyondService>>

\* the MCP server has passed the reply on; the next request is handled
NextRequest(t) ==
  /\ invocations[t].at = "done"
  /\ invocations' = [invocations EXCEPT ![t] = IdleCall]
  /\ UNCHANGED <<config, connection, constructed, clients, defaultProject, beyondService>>

NextServe ==
  \E t \in Callers :
    \/ Invoke(t)
    \/ Acquire(t)
    \/ AfterInitialize(t)
    \/ UpstreamSettles(t)
    \/ NextRequest(t)

SpecServe == InitServe /\ [][NextServe]_vars

\* C11: once the service is initialized, every handler whose service call
\* failed hands back an envelope with isError set to true, and never a
\* rejection.
C11_FailureEnvelope ==
  \A t \in DOMAIN invocations :
    (/\ invocations[t].at = "done"
     /\ invocations[t].error # ""
     /\ clients = { ClientOrder[i] : i \in 1..Len(ClientOrder) })
    => /\ invocations[t].reply.kind = "envelope"
       /\ invocations[t].reply.isError

\* C12: whatever the interleaving of the invocations, at most one
\* connection handle is ever constructed, it is never replaced, and every
\* invocation that got past initialize() works with that handle.
C12_OneHandle ==
  /\ constructed <= 1
  /\ connection = constructed
  /\ \A t \in DOMAIN invocations :
       invocations[t].at \in {"acquiring", "initialized", "upstream"}
       => invocations[t].handle = 1

C12_Witness ==
  /\ constructed = 1
  /\ \E t, u \in DOMAIN invocations :
       /\ invocations[t].at = "acquiring" /\ invocations[t].step = 2
       /\ invocations[u].at = "initialized"
       /\ invocations[u].handle = invocations[t].handle

(***************************************************************************)
(* createPullRequestComment                                                *)
(***************************************************************************)
\* the ids the upstream gives to a new comment and to a new thread
NewCommentId == 31
NewThreadId == 9

\* the optional threadId of the request
NoThread == [given |-> FALSE, id |-> 0]
Thread(n) == [given |-> TRUE, id |-> n]

CommentRequests ==
  [thread : {NoThread, Thread(0), Thread(7)}, named : BOOLEAN, filePath : BOOLEAN,
   lineNumber : {0, 12}]

\* what the call meets: initialize() ("ok", "fail", or "noclient": it
\* returns with gitClient null), the default project, and what createComment
\* and createThread do (a comment or a thread without id, a thread without
\* comments, a rejection)
CommentEnvs ==
  [initialized : {"ok", "fail", "noclient"}, defaultProject : BOOLEAN,
   createComment : {"ok", "noid", "fail"},
   createThread : {"ok", "nocomments", "noid", "fail"}]

\* (a bug to compare with: the thread id of the request is ignored)
HasThreadNever(thread) == FALSE

\* `if (threadId)`
HasThread(thread) == thread.given /\ thread.id # 0

CommentThrown(message, made) ==
  [thrown |-> TRUE, message |-> message, made |-> made, id |-> 0, threadId |-> 0]
CommentResponse(id, threadId, made) ==
  [thrown |-> FALSE, message |-> "", made |-> made, id |-> id, threadId |-> threadId]

\* the catch block of createPullRequestComment
CommentFailed(message, made) == CommentThrown("Failed to create comment: " \o message, made)

createPullRequestComment(params, env) ==
  IF env.initialized = "fail" THEN CommentThrown(UpstreamMsg, <<>>)
  ELSE IF env.initialized = "noclient" THEN CommentThrown("Git client not initialized", <<>>)
  ELSE IF ~params.named /\ ~env.defaultProject
  THEN CommentThrown("Project name is required", <<>>)
  ELSE IF HasThread(params.thread)
  THEN CASE env.createComment = "fail" -> CommentFailed(UpstreamMsg, <<"createComment">>)
         [] env.createComment = "noid" ->
              CommentResponse(0, params.thread.id, <<"createComment">>)
         [] OTHER -> CommentResponse(NewCommentId, params.thread.id, <<"createComment">>)
  ELSE CASE env.createThread = "fail" -> CommentFailed(UpstreamMsg, <<"createThread">>)
         [] env.createThread \in {"nocomments", "noid"} ->
              CommentFailed("Failed to create comment on pull request", <<"createThread">>)
         [] OTHER -> CommentResponse(NewCommentId, NewThreadId, <<"createThread">>)

beyondComment == <<fetching, shaping, service, routing, racing, configuring>>

InitComment ==
  /\ NoFetch
  /\ ShapingIdle
  /\ ServiceIdle /\ RoutingIdle /\ RaceIdle /\ ConfigIdle
  /\ \E params \in CommentRequests, env \in CommentEnvs :
       comment = [at |-> "start", params |-> params, env |-> env,
                  outcome |-> CommentThrown("", <<>>)]

CreateComment ==
  /\ comment.at = "start"
  /\ comment' = [comment EXCEPT !.at = "done",
                                !.outcome = createPullRequestComment(comment.params, comment.env)]
  /\ UNCHANGED beyondComment

NextComment == CreateComment

SpecComment == InitComment /\ [][NextComment]_vars

CommentDone == comment.at = "done"

\* the request got past initialize(), the client check and the project name
CommentAccepted ==
  /\ comment.env.initialized = "ok"
  /\ comment.params.named \/ comment.env.defaultProject

MaxSessions == 3

\* (a bug to compare with: the first tracked server takes every message)
MatchesAny(server, sessionId) == TRUE

\* s => s.transport && s.transport.sessionId === sessionId
Matches(server, sessionId) == server.sid = sessionId

\* servers.find(...): the index of the first match, 0 when there is none
Find(sessionId) ==
  LET hits == { i \in 1..Len(servers) : Matches(servers[i], sessionId) }
  IN IF hits = {} THEN 0 ELSE CHOOSE i \in hits : \A j \in hits : i <= j

\* servers.splice(index, 1)
Splice(list, index) == SubSeq(list, 1, index - 1) \o SubSeq(list, index + 1, Len(list))

beyondRouting == <<fetching, shaping, service, commenting, racing, configuring>>

InitRoute ==
  /\ NoFetch
  /\ ShapingIdle
  /\ ServiceIdle /\ CommentIdle /\ RaceIdle /\ ConfigIdle
  /\ servers = <<>>
  /\ opened = 0
  /\ post = Idle

\* GET /sse up to `await server.connect(transport)`: the server is tracked
\* before the connect
SseConnect ==
  /\ opened < MaxSessions
  /\ opened' = opened + 1
  /\ servers' = Append(servers, [sid |-> opened + 1, state |-> "connecting", client |-> TRUE])
  /\ UNCHANGED <<post, beyondRouting>>

\* server.connect(transport) settles: the close listener is registered, or
\* the catch block logs the error
ConnectSettles(i) ==
  /\ i \in 1..Len(servers)
  /\ servers[i].state = "connecting"
  /\ \E state \in {"open", "failed"} : servers' = [servers EXCEPT ![i].state = state]
  /\ UNCHANGED <<opened, post, beyondRouting>>

\* the client goes away: `close` is emitted once; the listener, when it is
\* registered already, removes the server
ClientDisconnect(i) ==
  /\ i \in 1..Len(servers)
  /\ servers[i].client
  /\ servers' = IF servers[i].state = "open"
                THEN Splice(servers, i)
                ELSE [servers EXCEPT ![i].client = FALSE]
  /\ UNCHANGED <<opened, post, beyondRouting>>

\* POST /message?sessionId=...
PostMessage(sessionId) ==
  /\ IF sessionId = 0
     THEN post' = [at |-> "done", sessionId |-> sessionId, status |-> "400", transport |-> 0]
     ELSE LET found == Find(sessionId)
          IN IF found = 0
             THEN post' = [at |-> "done", sessionId |-> sessionId, status |-> "404",
                           transport |-> 0]
             ELSE \E status \in {"handled", "500"} :
                    post' = [at |-> "done", sessionId |-> sessionId, status |-> status,
                             transport |-> servers[found].sid]
  /\ UNCHANGED <<servers, opened, beyondRouting>>

NextRoute ==
  \/ SseConnect
  \/ \E i \in 1..MaxSessions : ConnectSettles(i)
  \/ \E i \in 1..MaxSessions : ClientDisconnect(i)
  \/ \E sessionId \in 0..(MaxSessions + 1) : PostMessage(sessionId)

SpecRoute == InitRoute /\ [][NextRoute]_vars

Tracked(sessionId) == \E i \in 1..Len(servers) : servers[i].sid = sessionId

\* C14: a POST /message without sessionId is answered 400, one whose
\* sessionId no tracked server has is answered 404, and any other is handed
\* to the transport with exactly that session id; no transport gets a
\* message of another session.
C14_RoutedBySession ==
  [][post' # post
       => /\ post'.sessionId = 0 => post'.status = "400" /\ post'.transport = 0
          /\ (post'.sessionId # 0 /\ ~Tracked(post'.sessionId))
             => post'.status = "404" /\ post'.transport = 0
          /\ Tracked(post'.sessionId)
             => post'.status \in {"handled", "500"} /\ post'.transport = post'.sessionId
          /\ post'.transport \in {0, post'.sessionId}]_vars

C14_Witness ==
  /\ post # Idle
  /\ post.status = "handled" /\ post.sessionId = 2 /\ post.transport = 2
  /\ Len(servers) = 3 /\ servers[1].sid = 1 /\ servers[2].sid = 2

(***************************************************************************)
(* The file-content handlers of config-manager.ts: the service call raced  *)
(* against a timer.  Time advances in steps of TickMs.                     *)
(***************************************************************************)
TIMEOUT_MS == 300000
TickMs == 60000
MaxTicks == 7

TimeoutMessage == "Request timed out after 5 minutes"

\* JSON.stringify({ error: error.message })
ErrorJson(message) == "{\"error\":\"" \o message \o "\"}"

\* what the handler returns when the service call settled first
OperationResponse(plain, ends) ==
  IF ends = "rejected" THEN ErrorJson(IF plain THEN WrapError(UpstreamMsg) ELSE UpstreamMsg)
  ELSE IF plain THEN "{ content: [{ type: 'text', text: content }] }"
  ELSE "JSON.stringify(result)"

\* (a bug to compare with: every settlement is answered)
RaceEverySettles(r, response) ==
  [r EXCEPT !.at = "responded", !.responses = Append(@, response)]

\* `await Promise.race([...])` and what follows it: the first promise to
\* settle decides, later settlements have no listener left
RaceSettles(r, response) ==
  IF r.at = "racing"
  THEN [r EXCEPT !.at = "responded", !.responses = Append(@, response)]
  ELSE r

beyondRace == <<fetching, shaping, service, commenting, routing, configuring>>

\* the handler has created the timer and started the service call
InitRace ==
  /\ NoFetch
  /\ ShapingIdle
  /\ ServiceIdle /\ CommentIdle /\ RoutingIdle /\ ConfigIdle
  /\ \E tool \in {"pr", "branch"}, plain \in BOOLEAN :
       race = [at |-> "racing", tool |-> tool, plain |-> plain, clock |-> 0,
               operation |-> "pending", timer |-> "armed", responses |-> <<>>]

\* time passes; a timer that is due fires before time passes on
Tick ==
  /\ race.at # "idle"
  /\ race.clock < MaxTicks * TickMs
  /\ race.timer = "armed" => race.clock < TIMEOUT_MS
  /\ race' = [race EXCEPT !.clock = @ + TickMs]
  /\ UNCHANGED beyondRace

\* the service call resolves or rejects
OperationSettles ==
  /\ race.at # "idle"
  /\ race.operation = "pending"
  /\ \E ends \in {"resolved", "rejected"} :
       race' = RaceSettles([race EXCEPT !.operation = ends],
                           OperationResponse(race.plain, ends))
  /\ UNCHANGED beyondRace

\* setTimeout(() => reject(new Error('Request timed out after 5 minutes')), 300000)
TimerFires ==
  /\ race.at # "idle"
  /\ race.timer = "armed"
  /\ race.clock >= TIMEOUT_MS
  /\ race' = RaceSettles([race EXCEPT !.timer = "fired"], ErrorJson(TimeoutMessage))
  /\ UNCHANGED beyondRace

NextRace == Tick \/ OperationSettles \/ TimerFires

SpecRace == InitRace /\ [][NextRace]_vars

MaxSupplied == 2

Settings == {"port", "host", "organizationUrl", "token", "project", "level"}
Sources == {"cmd", "ide", "env"}

JsUndefined == "undefined"

\* DEFAULT_CONFIG
DefaultOf(k) ==
  CASE k = "port" -> "3000"
    [] k = "host" -> "localhost"
    [] k = "level" -> "info"
    [] OTHER -> JsUndefined

\* what the source supplies for the setting
Supplied(source, k, badUrl) ==
  IF badUrl /\ k = "organizationUrl" THEN "not a url" ELSE source \o ":" \o k

\* parseCommandLineArgs / loadIdeSettings / loadEnvConfig: the result starts
\* from the defaults (undefined for the Azure DevOps settings) and takes
\* every value the source supplies
SourceConfig(source, supplies, badUrl) ==
  [k \in Settings |-> IF k \in supplies THEN Supplied(source, k, badUrl) ELSE DefaultOf(k)]

\* { ...a, ...b }: every own property of b, undefined ones included
Spread(a, b) == [k \in DOMAIN a \cup DOMAIN b |-> IF k \in DOMAIN b THEN b[k] ELSE a[k]]

\* ConfigSchema.parse accepts the merged configuration
SchemaAccepts(c) == c["organizationUrl"] # "not a url"

\* loadConfig
loadConfig(supplies, badUrl) ==
  LET baseConfig == [k \in Settings |-> DefaultOf(k)]
      envConfig == SourceConfig("env", supplies["env"], badUrl)
      ideConfig == SourceConfig("ide", supplies["ide"], badUrl)
      cmdLineConfig == SourceConfig("cmd", supplies["cmd"], badUrl)
      mergedConfig == Spread(Spread(Spread(baseConfig, envConfig), ideConfig), cmdLineConfig)
  IN IF SchemaAccepts(mergedConfig) THEN mergedConfig ELSE baseConfig

beyondConfig == <<fetching, shaping, service, commenting, routing, racing>>

InitConfig ==
  /\ NoFetch
  /\ ShapingIdle
  /\ ServiceIdle /\ CommentIdle /\ RoutingIdle /\ RaceIdle
  /\ \E supplies \in [Sources -> { x \in SUBSET Settings : Cardinality(x) <= MaxSupplied }],
        badUrl \in BOOLEAN :
       /\ badUrl => "organizationUrl" \in supplies["cmd"]
       /\ settings = [at |-> "start", supplies |-> supplies, badUrl |-> badUrl,
                      merged |-> [k \in Settings |-> JsUndefined]]

LoadConfig ==
  /\ settings.at = "start"
  /\ settings' = [settings EXCEPT !.at = "loaded",
                                  !.merged = loadConfig(settings.supplies, settings.badUrl)]
  /\ UNCHANGED beyondConfig

NextConfig == LoadConfig

SpecConfig == InitConfig /\ [][NextConfig]_vars

\* the value of the setting from the source of highest priority that
\* supplies it
ByPriority(k) ==
  IF k \in settings.supplies["cmd"] THEN Supplied("cmd", k, settings.badUrl)
  ELSE IF k \in settings.supplies["ide"] THEN Supplied("ide", k, settings.badUrl)
  ELSE IF k \in settings.supplies["env"] THEN Supplied("env", k, settings.badUrl)
  ELSE DefaultOf(k)

\* C16: when every supplied value is well formed, each setting of the
\* merged configuration has the value of the first of command line, IDE
\* settings and environment that supplies it, and the default when none
\* does.
C16_MergedByPriority ==
  (settings.at = "loaded" /\ ~settings.badUrl)
  => \A k \in Settings : settings.merged[k] = ByPriority(k)

(***************************************************************************)
(* Further properties of the response truncator                            *)
(***************************************************************************)
\* the record handed to truncateResponse and the fields of it
Record == heap[payload.n]
Has(o, field) == \E i \in 1..Len(o.keys) : o.keys[i] = field

\* truncateResponse has returned the shrunk form of an over-budget record
RecordShaped == Shaped /\ ~Record.isArray /\ SerializedLength > maxSize

\* C21: in the result for an over-budget record, the non-essential fields
\* that were added are the first ones in the record's order: once a
\* non-essential field has been left out, no later field of the record is in
\* the result.
C21_StopsOnceExhausted ==
  RecordShaped
  => \A i, j \in 1..Len(Record.keys) :
       (/\ i < j
        /\ ~IsEssential(Record.keys[i]) /\ ~IsEssential(Record.keys[j])
        /\ ~Has(Shape, Record.keys[i]))
       => ~Has(Shape, Record.keys[j])

\* C22: truncateResponse returns a value, and never raises, for every
\* response and every budget.
C22_NeverRaises ==
  outcome.op = "truncateResponse" => outcome.kind = "value"

\* C30: a call of truncateResponse leaves every object that existed before
\* the call as it was (the response and what it refers to), and the shrunk
\* form it returns for an over-budget response is an object that did not
\* exist before the call.
C30_InputUntouched ==
  [][outcome'.op = "truncateResponse"
       => /\ Len(heap') >= Len(heap)
          /\ SubSeq(heap', 1, Len(heap)) = heap
          /\ payload' = payload
          /\ (outcome'.kind = "value" /\ SerializedLength > maxSize)
               => /\ outcome'.value.k = "object"
                  /\ outcome'.value.n > Len(heap)
                  /\ outcome'.value.n <= Len(heap')]_vars

C30_Witness ==
  /\ RecordShaped
  /\ Len(Record.keys) = MaxFields
  /\ Has(Record, "body") /\ ~Has(Shape, "body")
  /\ Has(Record, "project") /\ Get(Shape, "project") = Get(Record, "project")
  /\ outcome.value.n > 2

(***************************************************************************)
(* Further properties of the safe serializer                               *)
(***************************************************************************)
MarkerText == Quote(CircularMarker)

\* member i of o is a field with one of the names replaced outright
Skipped(o, i) == ~o.isArray /\ o.keys[i] \in SkippedKeys

\* the composite values met before member i of o is rendered, met being
\* those met before o's first member (the objects of these responses refer
\* to the response and to themselves only, so what an earlier member holds
\* further down has been met already)
MetBefore(o, i, met) ==
  met \cup { o.vals[j].n : j \in { k \in 1..(i - 1) : o.vals[k].k = "object" /\ ~Skipped(o, k) } }

\* The text the statement asks for: a skipped field is the marker, whatever
\* it holds; a composite value met before is the marker; a composite value
\* met for the first time is written out in full; the rest is plain JSON
\* (a field without JSON text is absent, an item without JSON text is null).
RECURSIVE MarkedValue(_, _, _)
RECURSIVE MarkedMembers(_, _, _, _)

MarkedValue(o, i, met) ==
  LET v == o.vals[i]
      before == MetBefore(o, i, met)
      inner == MarkedMembers(heap[v.n], 1, Len(heap[v.n].vals), before \cup {v.n})
  IN IF Skipped(o, i) THEN MarkerText
     ELSE CASE v.k = "object" ->
                 IF v.n \in before THEN MarkerText
                 ELSE IF heap[v.n].isArray THEN "[" \o inner \o "]"
                 ELSE "{" \o inner \o "}"
            [] v.k = "number" -> ToString(v.n)
            [] v.k = "string" -> Quote(v.s)
            [] v.k = "boolean" -> IF v.n = 1 THEN "true" ELSE "false"
            [] v.k = "null" -> "null"
            [] OTHER -> IF o.isArray THEN "null" ELSE ""

MarkedMembers(o, from, to, met) ==
  LET text == MarkedValue(o, from, met)
      half == (from + to) \div 2
      first == MarkedMembers(o, from, half, met)
      second == MarkedMembers(o, half + 1, to, met)
  IN IF from > to THEN ""
     ELSE IF from = to
     THEN IF o.isArray \/ text = "" THEN text ELSE Quote(o.keys[from]) \o ":" \o text
     ELSE IF first = "" \/ second = "" THEN first \o second
     ELSE first \o "," \o second

MarkedText ==
  LET o == heap[payload.n]
      inner == MarkedMembers(o, 1, Len(o.vals), {payload.n})
  IN IF o.isArray THEN "[" \o inner \o "]" ELSE "{" \o inner \o "}"

\* C23: the text safeStringify gives for a record or an array is its JSON
\* text in which every composite value met a second time (the response
\* itself met again inside it, or a value that occurs twice) is the string
\* '[Circular]' instead of its members, and in which every field named
\* _httpMessage, socket, connection or agent has the value '[Circular]',
\* whatever it holds (an object, undefined, ...).
C23_MarkerForRepeatedAndSkipped ==
  (outcome.op = "safeStringify" /\ payload.k = "object")
  => /\ outcome.kind = "string"
     /\ outcome.text = MarkedText

C23_Witness ==
  /\ outcome.op = "safeStringify"
  /\ heap[1] = Object(<<"project", "socket", "body">>, <<Ref(2), Ref(2), Ref(1)>>)
  /\ heap[2] = Object(<<"self", "n">>, <<Ref(2), Num(1)>>)
  /\ outcome.text = "{\"project\":{\"self\":\"[Circular]\",\"n\":1},"
                      \o "\"socket\":\"[Circular]\",\"body\":\"[Circular]\"}"

(***************************************************************************)
(* Further properties of the file content resolver and the range fetcher   *)
(***************************************************************************)
\* upstream answers the content call with the bytes and the metadata call
\* with the true size
HealthyUpstream ==
  /\ req.hasProject
  /\ up.setup = "ok"
  /\ IF req.tool = "pr"
     THEN up.blob = "buffer" /\ up.meta = "exact"
     ELSE up.item[req.branchName] = "ok" /\ up.bcontent = "buffer" /\ up.bmeta = "exact"

\* C24: a range request on a path with a binary extension, at either entry
\* point, is answered with the size of the file, the placeholder
\* '[Binary content]' as content, the binary flag, and a fetched length of
\* zero.
C24_BinaryRangeReport ==
  (OneRange /\ isBinaryFile(req.filePath) /\ HealthyUpstream)
  => /\ result.kind = "range"
     /\ result.range.isBinary
     /\ result.range.size = fileSize
     /\ result.range.content = Lit("[Binary content]")
     /\ result.range.length = 0

(***************************************************************************)
(* Further properties of the service's initialization                      *)
(***************************************************************************)
AllClients == { ClientOrder[i] : i \in 1..Len(ClientOrder) }

\* some call of initialize() is between two of its awaits
Acquiring == \E t \in DOMAIN invocations : invocations[t].at = "acquiring"

\* C25: whenever initialize() has returned normally to a caller, whatever
\* the other callers are doing, the four API clients are set, and no
\* service method fails with a '... client not initialized' error.
C25_ClientsSetAfterInitialize ==
  \A t \in DOMAIN invocations :
    /\ invocations[t].at = "initialized" => clients = AllClients
    /\ invocations[t].error \notin { NotInitialized(tool) : tool \in Tools }

\* C26: when an earlier initialize() failed while acquiring a client (the
\* handle is set, a client is missing and no call is acquiring), a call of
\* initialize() takes up the acquisition of the clients again instead of
\* returning normally.
C26_RetriesAfterFailedAcquisition ==
  [][\A t \in DOMAIN invocations :
       (/\ invocations[t].at = "idle" /\ invocations'[t].at # "idle"
        /\ connection # 0 /\ clients # AllClients /\ ~Acquiring)
       => invocations'[t].at = "acquiring"]_vars

\* C27: a whole-file retrieval in which a range fetch resolved to a
\* FileRange with error set does not end with a text: it ends with an
\* error.
C27_NoTextOverFailedRange ==
  (WholeFile /\ errored # {}) => result.kind # "text"

\* the ranges requested in the wave phase so far, in issue order (the probe
\* is the first request of the invocation)
WaveRanges == IF totalLength > SMALL_FILE_LIMIT THEN SubSeq(issued, 2, Len(issued)) ELSE <<>>
RangeEnd(range) == range[1] + range[2]

\* C28: when the reported total S is above 100,000, the ranges requested in
\* the wave phase are, in issue order, contiguous and disjoint: the first
\* starts at 0, each starts where the one before ended, each has between 1
\* and 100,000 bytes, none extends past S, the position of the loop is the
\* end of the last one, and when the text is returned the last one ends at
\* S.
C28_WavesCoverExactly ==
  (totalLength > SMALL_FILE_LIMIT /\ pc \in {"wave", "delay", "done"})
  => /\ Len(WaveRanges) >= 1
     /\ \A i \in 1..Len(WaveRanges) :
          /\ WaveRanges[i][1] = IF i = 1 THEN 0 ELSE RangeEnd(WaveRanges[i - 1])
          /\ WaveRanges[i][2] \in 1..CHUNK_SIZE
          /\ RangeEnd(WaveRanges[i]) <= totalLength
     /\ position = RangeEnd(WaveRanges[Len(WaveRanges)])
     /\ result.kind = "text" => position = totalLength

C28_Witness ==
  /\ WholeFile /\ result.kind = "text"
  /\ totalLength = 550000
  /\ WaveRanges = << <<0, 100000>>, <<100000, 100000>>, <<200000, 100000>>,
                     <<300000, 100000>>, <<400000, 100000>>, <<500000, 50000>> >>

(***************************************************************************)
(* Further properties of the SSE session routing                           *)
(***************************************************************************)
\* the SSE connection of the session is open: its client is there and its
\* server.connect has not failed
OpenSession(sessionId) ==
  \E i \in 1..Len(servers) :
    /\ servers[i].sid = sessionId
    /\ servers[i].client
    /\ servers[i].state # "failed"

\* C29: after every step the tracked servers are those whose SSE connection
\* is open (no entry is left of a server whose connect failed or whose
\* client has gone), and a POST /message for a session that is not open is
\* answered 404.
C29_TracksOpenConnections ==
  [][/\ \A i \in 1..Len(servers') : servers'[i].client /\ servers'[i].state # "failed"
     /\ (post' # post /\ post'.sessionId # 0 /\ ~OpenSession(post'.sessionId))
        => post'.status = "404"]_vars

====
